---- MODULE Spec2Model ----
(***************************************************************************)
(* Push-synchronization protocol of the bee node (package pushsync).       *)
(*                                                                         *)
(* One PushSync instance (the pivot, node `self`) is modelled with its     *)
(* chunksWorker goroutine, its retry map and its quit channel.  Every node *)
(* of the topology runs the protocol's stream handler on its own storer.   *)
(* Chunks are uploaded at the pivot only, so the workers of the other      *)
(* nodes never find anything in their push index and are left out.  The    *)
(* storer, the topology driver and the streamer are collaborators: their   *)
(* results (errors, the closing of a feed, the reset of a stream) are      *)
(* inputs of the actions.                                                  *)
(***************************************************************************)
EXTENDS Integers, Sequences, FiniteSets, TLC

\* ------------------------------------------------------------------ bounds
NumNodes == 3      \* nodes of the topology, 0 .. NumNodes-1
MaxUploads == 1    \* chunks uploaded at the pivot; the k-th has address k
MaxStreams == 1    \* streams that exist at the same time
MaxBatch == 1      \* chunksInBatch is kept up to this value (only = 0 is tested)
NumCallers == 3    \* concurrent calls of sendChunkAndReceiveReceipt in SpecMutex

\* ------------------------------------------------------- program constants
MaxRetries == 3
retryInterval == 10000
timeToWaitForReceipt == 2000
debounceDelay == 500

\* ------------------------------------------------------------- vocabulary
Nodes == 0 .. (NumNodes - 1)
ZeroPeer == -1                    \* swarm.Address zero value
Addrs == 1 .. MaxUploads
NoAddr == 0                       \* empty address bytes
Absent == -1                      \* no entry in the retry map
Slots == 1 .. MaxStreams
NoSlot == 0

\* chunk data are content addressed: the data of the chunk at address a
DataOf(a) == a + 100
NewChunk(a, d) == [addr |-> a, data |-> d]
NoChunk == NewChunk(NoAddr, 0)

ErrWantSelf == "ErrWantSelf"
ErrOther == "err"
NoErr == "nil"

VARIABLES
    self,           \* the node whose PushSync instance runs the worker
    stored,         \* storer of each node: the chunks it holds
    synced,         \* storer of each node: addresses set to synced
    pushIndex,      \* storer of the pivot: addresses pending push
    uploads,        \* chunks uploaded so far
    retryChunks,    \* PushSync.retryChunks of the pivot
    retryChunksMu,  \* PushSync.retryChunksMu: "free", or "worker" holds it
    quit,           \* PushSync.quit is closed
    wpc,            \* position of the chunksWorker goroutine
    chunks,         \* chunksWorker: the chunks channel, "nil" or "live"
    unsubscribe,    \* chunksWorker: unsubscribe is not nil
    timer,          \* chunksWorker: duration of the last timer reset
    chunksInBatch,  \* chunksWorker: the counter
    yielded,        \* addresses the live subscription has yielded
    subs,           \* subscriptions opened at the storer and not unsubscribed
    att,            \* what the worker did for the chunk it took last (q: quit
                    \* was closed when it took the chunk; mu: the holder of
                    \* the mutex when it looked the chunk up in the retry map)
    wstream,        \* slot of the stream the worker holds open
    streams,        \* the streams, by slot
    fails,          \* observer: consecutive failed transfers of each address
    prior,          \* observer: fails of its address when the last transfer began
    wrfails,        \* observer: consecutive transfers of each address that
                    \* failed in the Delivery write or the Receipt read
    epoch,          \* observer: parity of the number of SubscribePush calls
    calls           \* SpecMutex: the concurrent calls of sendChunkAndReceiveReceipt

vars == << self, stored, synced, pushIndex, uploads, retryChunks, retryChunksMu, quit,
           wpc, chunks, unsubscribe, timer, chunksInBatch, yielded, subs, att,
           wstream, streams, fails, prior, wrfails, epoch, calls >>

storerVars == << stored, synced, pushIndex >>
loopVars == << chunks, unsubscribe, timer, chunksInBatch, yielded, subs >>

\* ------------------------------------------------------------ wire messages
\* pb.Delivery{Address, Data} as sendChunkAndReceiveReceipt builds it
NewDelivery(ch) == [Address |-> ch.addr, Data |-> ch.data]

\* pb.Receipt as the handler builds it: `var receipt pb.Receipt`, no field set
NewReceipt(ch) == [Address |-> NoAddr]

\* ------------------------------------------------------------ collaborators
\* topology.ClosestPeerer of node n in a chain topology: every hop is strictly
\* closer to the chunk, the last node is the closest one
ClosestPeer(n) ==
    IF n = NumNodes - 1
    THEN [peer |-> ZeroPeer, err |-> ErrWantSelf]
    ELSE [peer |-> n + 1, err |-> NoErr]

\* what a call of ClosestPeer at node n may return: its answer, or a failure
RouteResults(n) == { ClosestPeer(n), [peer |-> ZeroPeer, err |-> ErrOther] }

\* storer.Put at node n
StorerPut(st, n, ch) == [st EXCEPT ![n] = @ \cup {ch}]

\* storer.Set(ModeSetSyncPush) at node n: the address becomes synced
StorerSetSynced(sy, n, a) == [sy EXCEPT ![n] = @ \cup {a}]

\* a chunk set to synced at the pivot leaves its push index
PushIndexAfterSet(n, a) == IF n = self THEN pushIndex \ {a} ELSE pushIndex

\* ------------------------------------------------------------------ streams
FreeStream ==
    [ used |-> FALSE, to |-> ZeroPeer, in |-> << >>, out |-> << >>,
      cclosed |-> FALSE, reset |-> FALSE, hpc |-> "none", hch |-> NoChunk,
      hev |-> << >>, hroute |-> "none", hfwd |-> << >>, hres |-> "none",
      hfail |-> "none", hclosed |-> FALSE ]

\* a stream the streamer has opened to peer p; the handler of p starts on it
OpenStream(p) ==
    [ FreeStream EXCEPT !.used = TRUE, !.to = p,
      !.hpc = IF p \in Nodes THEN "read" ELSE "none" ]

HandlerOver(st) == st.hpc \in {"none", "done"}

\* a stream both ends are done with leaves the table: its slot is free. What
\* happened on it is dropped, but for a stream whose handler read the end of
\* the stream (a return that only comes after the client's close), which
\* stays readable until the slot is used again
Settle(st) ==
    IF st.used /\ st.cclosed /\ HandlerOver(st)
    THEN IF st.hfail = "eof" THEN [st EXCEPT !.used = FALSE] ELSE FreeStream
    ELSE st

FreeSlots == { s \in Slots : ~streams[s].used }

\* the calls of sendChunkAndReceiveReceipt that run at the same time in
\* SpecMutex, and a call that has not begun: pc is its position, addr the
\* address of its chunk, seen the map entry its lookup found, under whether
\* the mutex was held at each of its map accesses, res what it returned
Callers == 1 .. NumCallers

CallIdle == [ pc |-> "idle", addr |-> NoAddr, seen |-> Absent, under |-> TRUE,
              holds |-> FALSE, stream |-> "none", answer |-> "none",
              res |-> "none" ]

TypeOK ==
    /\ self \in Nodes
    /\ stored \in [Nodes -> SUBSET [addr : Addrs, data : {DataOf(a) : a \in Addrs}]]
    /\ synced \in [Nodes -> SUBSET Addrs]
    /\ pushIndex \subseteq Addrs
    /\ uploads \in 0 .. MaxUploads
    /\ retryChunks \in [Addrs -> {Absent} \cup (0 .. MaxRetries + 1)]
    /\ retryChunksMu \in {"free", "worker", "call"}
    /\ quit \in BOOLEAN
    /\ wpc \in {"select", "open", "retry", "locked", "write", "read", "exit"}
    /\ chunks \in {"nil", "live"}
    /\ unsubscribe \in BOOLEAN
    /\ timer \in {0, debounceDelay, retryInterval}
    /\ chunksInBatch \in -1 .. MaxBatch
    /\ yielded \subseteq Addrs
    /\ subs \in 0 .. 1
    /\ wstream \in Slots \cup {NoSlot}
    /\ DOMAIN streams = Slots
    /\ fails \in [Addrs -> 0 .. MaxRetries + 1]
    /\ prior \in 0 .. MaxRetries + 1
    /\ wrfails \in [Addrs -> 0 .. MaxRetries + 1]
    /\ epoch \in 0 .. 1
    /\ calls \in [Callers -> [pc : {"idle", "start", "locked", "read", "written", "net",
                                    "sent", "done"},
                              addr : Addrs \cup {NoAddr},
                              seen : {Absent} \cup (0 .. MaxRetries + 1),
                              under : BOOLEAN,
                              holds : BOOLEAN,
                              stream : {"none", "open", "closed"},
                              answer : {"none", "receipt", "broken"},
                              res : {"none", "stream", "ok", "write", "read", "exhausted"}]]

AttNone ==
    [ addr |-> NoAddr, route |-> "none", peer |-> ZeroPeer, opened |-> 0,
      to |-> ZeroPeer, conn |-> NoSlot, wslot |-> NoSlot, rslot |-> NoSlot,
      sent |-> << >>, rcpt |-> FALSE, res |-> "none", set |-> "none",
      q |-> FALSE, mu |-> "none" ]

Init ==
    /\ self \in Nodes
    /\ stored = [n \in Nodes |-> {}]
    /\ synced = [n \in Nodes |-> {}]
    /\ pushIndex = {}
    /\ uploads = 0
    /\ retryChunks = [a \in Addrs |-> Absent]
    /\ retryChunksMu = "free"
    /\ quit = FALSE
    /\ wpc = "select"
    /\ chunks = "nil"
    /\ unsubscribe = FALSE
    /\ timer = 0
    /\ chunksInBatch = -1
    /\ yielded = {}
    /\ subs = 0
    /\ att = AttNone
    /\ wstream = NoSlot
    /\ streams = [s \in Slots |-> FreeStream]
    /\ fails = [a \in Addrs |-> 0]
    /\ prior = 0
    /\ wrfails = [a \in Addrs |-> 0]
    /\ epoch = 0
    /\ calls = [c \in Callers |-> CallIdle]

\* ---------------------------------------------------------------- helpers
Min(a, b) == IF a < b THEN a ELSE b

\* the chunk the push feed yields for address a: the one the pivot stores
FeedChunk(a) == CHOOSE c \in stored[self] : c.addr = a

\* the client end of stream s is closed (streamer.Close)
ClientClose(s) == [streams EXCEPT ![s] = Settle([@ EXCEPT !.cclosed = TRUE])]

\* a handler that returns res and leaves its stream open
HandlerReturn_open(st, res) == [st EXCEPT !.hpc = "done", !.hres = res]

\* the handler on stream s returns res; its deferred stream.Close runs
HandlerReturn(st, res) ==
    Settle([st EXCEPT !.hpc = "done", !.hres = res, !.hclosed = TRUE])

\* ------------------------------------------------------------- environment
\* a chunk is uploaded at the pivot: storer.Put(ModePutUpload)
Upload ==
    /\ uploads < MaxUploads
    /\ LET a == uploads + 1 IN
        /\ stored' = StorerPut(stored, self, NewChunk(a, DataOf(a)))
        /\ pushIndex' = pushIndex \cup {a}
    /\ uploads' = uploads + 1
    /\ UNCHANGED << self, synced, retryChunks, retryChunksMu, quit, wpc, loopVars, att,
                    wstream, streams >>

\* the stream the worker waits on breaks before a Receipt arrived
StreamReset ==
    /\ wpc = "read"
    /\ ~streams[wstream].reset
    /\ streams[wstream].out = << >>
    /\ streams' = [streams EXCEPT ![wstream].reset = TRUE]
    /\ UNCHANGED << self, storerVars, uploads, retryChunks, retryChunksMu, quit, wpc,
                    loopVars, att, wstream >>

\* PushSync.Close
Close ==
    /\ ~quit
    /\ quit' = TRUE
    /\ UNCHANGED << self, storerVars, uploads, retryChunks, retryChunksMu, wpc, loopVars,
                    att, wstream, streams >>

\* ------------------------------------------------------------ chunksWorker
\* a worker that subscribes again without unsubscribing first
SubsAfterTick_leak(n, unsub) == n + 1

\* the subscriptions held after a timer tick, n held before it: unsubscribe()
\* is called if unsubscribe is not nil, then SubscribePush
SubsAfterTick(n, unsub) == (IF unsub THEN n - 1 ELSE n) + 1

\* case <-timer.C
chunksWorker_timer ==
    /\ wpc = "select"
    /\ subs' = SubsAfterTick(subs, unsubscribe)
    /\ chunks' = "live"
    /\ unsubscribe' = TRUE
    /\ yielded' = {}
    /\ timer' = retryInterval
    /\ UNCHANGED << self, storerVars, uploads, retryChunks, retryChunksMu, quit, wpc,
                    chunksInBatch, att, wstream, streams >>

\* the duration the timer is reset to when the feed has closed
ClosedFeedDelay == IF chunksInBatch = 0 THEN debounceDelay ELSE 0

\* case ch, more := <-chunks with more = false
chunksWorker_closed ==
    /\ wpc = "select"
    /\ chunks = "live"
    /\ chunks' = "nil"
    /\ timer' = ClosedFeedDelay
    /\ UNCHANGED << self, storerVars, uploads, retryChunks, retryChunksMu, quit, wpc,
                    unsubscribe, chunksInBatch, yielded, subs, att, wstream, streams >>

\* a worker that goes on to send the chunk whatever ClosestPeer answered
NextAfterRoute_open(r) == "open"

\* the worker's position after ClosestPeer has answered r for a chunk
NextAfterRoute(r) == IF r.err = ErrWantSelf THEN "select" ELSE "open"

\* case ch, more := <-chunks with a chunk: count it, ask the topology, and
\* either set it synced (self is closest) or go on to send it
chunksWorker_chunk(a) ==
    /\ wpc = "select"
    /\ chunks = "live"
    /\ a \in pushIndex \ yielded
    /\ yielded' = yielded \cup {a}
    /\ chunksInBatch' = Min(chunksInBatch + 1, MaxBatch)
    /\ \E r \in RouteResults(self) :
        /\ wpc' = NextAfterRoute(r)
        /\ IF r.err = ErrWantSelf
           THEN \E ok \in BOOLEAN :
                /\ att' = [AttNone EXCEPT !.addr = a, !.route = "self", !.q = quit,
                                          !.set = IF ok THEN "ok" ELSE "err"]
                /\ synced' = IF ok THEN StorerSetSynced(synced, self, a) ELSE synced
                /\ pushIndex' = IF ok THEN PushIndexAfterSet(self, a) ELSE pushIndex
           ELSE /\ att' = [AttNone EXCEPT !.addr = a, !.peer = r.peer, !.q = quit,
                                          !.route = IF r.err = NoErr THEN "peer" ELSE "err"]
                /\ UNCHANGED << synced, pushIndex >>
    /\ UNCHANGED << self, stored, uploads, retryChunks, retryChunksMu, quit, chunks,
                    unsubscribe, timer, subs, wstream, streams >>

\* case <-ps.quit
chunksWorker_quit ==
    /\ wpc = "select"
    /\ quit
    /\ subs' = IF unsubscribe THEN subs - 1 ELSE subs
    /\ wpc' = "exit"
    /\ UNCHANGED << self, storerVars, uploads, retryChunks, retryChunksMu, quit, chunks,
                    unsubscribe, timer, chunksInBatch, yielded, att, wstream, streams >>

\* ----------------------------------------------- sendChunkAndReceiveReceipt
\* ps.streamer.NewStream(ctx, peer, ...): a stream to the peer, or an error
send_NewStream ==
    /\ wpc = "open"
    /\ \/ /\ att' = [att EXCEPT !.res = "stream"]
          /\ wpc' = "select"
          /\ UNCHANGED << wstream, streams >>
       \/ /\ FreeSlots # {}
          /\ LET s == CHOOSE x \in FreeSlots : \A y \in FreeSlots : x <= y IN
              /\ streams' = [streams EXCEPT ![s] = OpenStream(att.peer)]
              /\ wstream' = s
          /\ att' = [att EXCEPT !.opened = @ + 1, !.to = att.peer,
                                !.conn = CHOOSE x \in FreeSlots : \A y \in FreeSlots : x <= y]
          /\ wpc' = "retry"
    /\ UNCHANGED << self, storerVars, uploads, retryChunks, retryChunksMu, quit, loopVars >>

\* the retry map after the lookup of address a under retryChunksMu: an entry
\* above MaxRetries is deleted, another entry stays as it is (noOfRetries++
\* changes the local copy only), a missing entry is created with 0
RetryLookup(rc, a) ==
    IF rc[a] # Absent
    THEN IF rc[a] > MaxRetries THEN [rc EXCEPT ![a] = Absent] ELSE rc
    ELSE [rc EXCEPT ![a] = 0]

\* the lookup finds the retries of address a exhausted
RetriesExhausted(rc, a) == rc[a] # Absent /\ rc[a] > MaxRetries

\* a mutex that lets a caller in while another holds it
MayLock_always(m) == TRUE

\* ps.retryChunksMu.Lock() returns only when the mutex is free
MayLock(m) == m = "free"

\* ps.retryChunksMu.Lock(): the caller waits until the mutex is free
send_Lock ==
    /\ wpc = "retry"
    /\ MayLock(retryChunksMu)
    /\ retryChunksMu' = "worker"
    /\ wpc' = "locked"
    /\ UNCHANGED << self, storerVars, uploads, retryChunks, quit, loopVars,
                    att, wstream, streams >>

\* a caller that leaves the critical section without Unlock
Unlock_kept(m) == m

\* ps.retryChunksMu.Unlock(), called on both ways out of the critical section
Unlock(m) == "free"

\* the lookup and update of the retry map and the Unlock that follows
send_retry ==
    /\ wpc = "locked"
    /\ retryChunks' = RetryLookup(retryChunks, att.addr)
    /\ retryChunksMu' = Unlock(retryChunksMu)
    /\ IF RetriesExhausted(retryChunks, att.addr)
       THEN /\ att' = [att EXCEPT !.res = "exhausted", !.mu = retryChunksMu]
            /\ streams' = ClientClose(wstream)
            /\ wstream' = NoSlot
            /\ wpc' = "select"
       ELSE /\ att' = [att EXCEPT !.mu = retryChunksMu]
            /\ wpc' = "write"
            /\ UNCHANGED << wstream, streams >>
    /\ UNCHANGED << self, storerVars, uploads, quit, loopVars >>

\* w.WriteMsgWithTimeout(timeToWaitForReceipt, &pb.Delivery{...})
send_write ==
    /\ wpc = "write"
    /\ \/ LET d == NewDelivery(FeedChunk(att.addr)) IN
          /\ streams' = [streams EXCEPT ![wstream].in = Append(@, d)]
          /\ att' = [att EXCEPT !.sent = Append(@, d), !.wslot = wstream]
          /\ wpc' = "read"
          /\ UNCHANGED wstream
       \/ /\ att' = [att EXCEPT !.res = "write"]
          /\ streams' = ClientClose(wstream)
          /\ wstream' = NoSlot
          /\ wpc' = "select"
    /\ UNCHANGED << self, storerVars, uploads, retryChunks, retryChunksMu, quit, loopVars >>

\* r.ReadMsg(&receipt) can return a Receipt
ReceiptReadable(st) == st.out # << >> /\ ~st.reset

\* r.ReadMsg(&receipt) can return an error: the stream broke, or the peer's
\* handler closed it without a Receipt
ReceiptReadFails(st) == st.reset \/ (st.out = << >> /\ st.hpc = "done")

\* the results r.ReadMsg(&receipt) can have on stream st
ReadResults(st) ==
    (IF ReceiptReadable(st) THEN {"ok"} ELSE {}) \cup
    (IF ReceiptReadFails(st) THEN {"read"} ELSE {})

\* a worker that sets the chunk synced whatever the transfer returned
MarksSynced_always(res) == TRUE

\* the worker sets the chunk synced when sendChunkAndReceiveReceipt returned
\* nil, and goes on to the next event (continue) when it returned an error
MarksSynced(res) == res = "ok"

\* r.ReadMsg(&receipt) returns and sendChunkAndReceiveReceipt with it (the
\* deferred streamer.Close runs); the worker then sets the chunk synced or not
send_read ==
    /\ wpc = "read"
    /\ \E res \in ReadResults(streams[wstream]) :
        IF MarksSynced(res)
        THEN \E ok \in BOOLEAN :
            /\ att' = [att EXCEPT !.res = res, !.rcpt = (res = "ok"),
                                  !.rslot = IF res = "ok" THEN wstream ELSE NoSlot,
                                  !.set = IF ok THEN "ok" ELSE "err"]
            /\ synced' = IF ok THEN StorerSetSynced(synced, self, att.addr) ELSE synced
            /\ pushIndex' = IF ok THEN PushIndexAfterSet(self, att.addr) ELSE pushIndex
        ELSE /\ att' = [att EXCEPT !.res = res, !.rcpt = (res = "ok"),
                                   !.rslot = IF res = "ok" THEN wstream ELSE NoSlot]
             /\ UNCHANGED << synced, pushIndex >>
    /\ streams' = ClientClose(wstream)
    /\ wstream' = NoSlot
    /\ wpc' = "select"
    /\ UNCHANGED << self, stored, uploads, retryChunks, retryChunksMu, quit, loopVars >>

\* ------------------------------------------------------------------ handler
\* the results r.ReadMsg(&ch) can have on stream st: a Delivery, the end of
\* the stream (the peer closed without writing), or another error
DeliveryReads(st) ==
    (IF st.in # << >> THEN {"msg"} ELSE {}) \cup
    (IF st.in = << >> /\ st.cclosed THEN {"eof"} ELSE {}) \cup
    {"err"}

\* a handler that returns the end of the stream as an error
ReadFailureResult_strict(got) == ErrOther

\* what the handler returns when r.ReadMsg(&ch) gave no message: nil at the
\* end of the stream, the error otherwise
ReadFailureResult(got) == IF got = "eof" THEN NoErr ELSE ErrOther

\* r.ReadMsg(&ch) and the making of the chunk from the message
handler_read(s) ==
    /\ streams[s].hpc = "read"
    /\ LET st == streams[s] IN
        \E got \in DeliveryReads(st) :
            streams' = [streams EXCEPT ![s] =
                IF got = "msg"
                THEN [st EXCEPT !.hch = NewChunk(st.in[1].Address, st.in[1].Data),
                                !.hpc = "put"]
                ELSE HandlerReturn([st EXCEPT !.hfail = IF got = "eof" THEN "eof" ELSE "read"],
                                   ReadFailureResult(got))]
    /\ UNCHANGED << self, storerVars, uploads, retryChunks, retryChunksMu, quit, wpc,
                    loopVars, att, wstream >>

\* a handler that asks the topology right after storing the chunk
HandlerAfterPut_route == "route"

\* what the handler does next once the chunk is stored: it writes the Receipt
HandlerAfterPut == "receipt"

\* a handler that goes on to the Receipt when storer.Put has failed
HandlerAfterPutFails_receipt == "receipt"

\* what the handler does next when storer.Put has failed: it returns the error
HandlerAfterPutFails == "return"

\* ps.storer.Put(ctx, storage.ModePutSync, chunk)
handler_put(s) ==
    /\ streams[s].hpc = "put"
    /\ LET st == streams[s] IN
        \E ok \in BOOLEAN :
            IF ok
            THEN /\ stored' = StorerPut(stored, st.to, st.hch)
                 /\ streams' = [streams EXCEPT ![s] =
                        [st EXCEPT !.hev = Append(@, "put"), !.hpc = HandlerAfterPut]]
            ELSE /\ streams' = [streams EXCEPT ![s] =
                        IF HandlerAfterPutFails = "return"
                        THEN HandlerReturn([st EXCEPT !.hfail = "put"], ErrOther)
                        ELSE [st EXCEPT !.hfail = "put", !.hpc = HandlerAfterPutFails]]
                 /\ UNCHANGED stored
    /\ UNCHANGED << self, synced, pushIndex, uploads, retryChunks, retryChunksMu, quit,
                    wpc, loopVars, att, wstream >>

\* w.WriteMsg(receipt)
handler_receipt(s) ==
    /\ streams[s].hpc = "receipt"
    /\ LET st == streams[s] IN
        \E ok \in BOOLEAN :
            IF ok
            THEN streams' = [streams EXCEPT ![s] =
                     [st EXCEPT !.out = Append(@, NewReceipt(st.hch)),
                                !.hev = Append(@, "receipt"), !.hpc = "route"]]
            ELSE streams' = [streams EXCEPT ![s] =
                     HandlerReturn([st EXCEPT !.hfail = "receipt"], ErrOther)]
    /\ UNCHANGED << self, storerVars, uploads, retryChunks, retryChunksMu, quit, wpc,
                    loopVars, att, wstream >>

\* a handler that calls Set also when ClosestPeer answered self-is-closest
HandlerAfterRoute_set(r) == IF r.err \in {NoErr, ErrWantSelf} THEN "set" ELSE "fail"

\* what the handler does once ClosestPeer has answered r: "stop" when it is
\* the closest node, "fail" on an error, "set" when a closer peer exists
HandlerAfterRoute(r) ==
    IF r.err = ErrWantSelf THEN "stop"
    ELSE IF r.err # NoErr THEN "fail"
    ELSE "set"

\* a handler that sends the chunk on to the peer ClosestPeer returned with
\* its answer, whatever the answer
HandlerForwards_always(r, ch) == << [to |-> r.peer, msg |-> NewDelivery(ch)] >>

\* the Deliveries the handler sends on new streams once ClosestPeer has
\* answered r for chunk ch: the handler opens no stream, whatever the answer
HandlerForwards(r, ch) == << >>

\* ps.peerSuggester.ClosestPeer(addr) and the rest of the handler
handler_route(s) ==
    /\ streams[s].hpc = "route"
    /\ LET st == streams[s] IN
        \E r \in RouteResults(st.to) :
            LET what == HandlerAfterRoute(r)
                st1 == [st EXCEPT !.hev = Append(@, "route"),
                                  !.hfwd = HandlerForwards(r, st.hch),
                                  !.hroute = IF r.err = NoErr THEN "peer"
                                             ELSE IF r.err = ErrWantSelf THEN "self"
                                             ELSE "err"] IN
            CASE what = "stop" ->
                    /\ streams' = [streams EXCEPT ![s] = HandlerReturn(st1, NoErr)]
                    /\ UNCHANGED << synced, pushIndex >>
              [] what = "fail" ->
                    /\ streams' = [streams EXCEPT ![s] =
                           HandlerReturn([st1 EXCEPT !.hfail = "route"], ErrOther)]
                    /\ UNCHANGED << synced, pushIndex >>
              [] OTHER ->
                    \E ok \in BOOLEAN :
                        /\ streams' = [streams EXCEPT ![s] =
                               HandlerReturn([st1 EXCEPT !.hev = Append(@, "set"),
                                                         !.hfail = IF ok THEN "none" ELSE "set"],
                                             IF ok THEN NoErr ELSE ErrOther)]
                        /\ synced' = IF ok THEN StorerSetSynced(synced, st.to, st.hch.addr)
                                     ELSE synced
                        /\ pushIndex' = IF ok THEN PushIndexAfterSet(st.to, st.hch.addr)
                                        ELSE pushIndex
    /\ UNCHANGED << self, stored, uploads, retryChunks, retryChunksMu, quit, wpc,
                    loopVars, att, wstream >>

\* ------------------------------------------------------------- the system
\* the observers stay as they are
Frozen == UNCHANGED << fails, prior, wrfails, epoch, calls >>

\* the observers follow the calls of sendChunkAndReceiveReceipt: prior is the
\* number of consecutive failed calls for the address when a call begins, and
\* fails is counted up when a call returns an error and reset when it returns nil;
\* wrfails counts the calls that failed in WriteMsgWithTimeout or ReadMsg, is
\* reset when a call returns nil or deletes the entry, and is left alone by a
\* call that failed in NewStream
Observe ==
    /\ epoch' = epoch
    /\ calls' = calls
    /\ wrfails' = IF wpc \in {"open", "locked", "write", "read"} /\ wpc' = "select"
                  THEN [wrfails EXCEPT ![att.addr] =
                           CASE att'.res \in {"write", "read"} -> Min(@ + 1, MaxRetries + 1)
                             [] att'.res \in {"ok", "exhausted"} -> 0
                             [] OTHER -> @]
                  ELSE wrfails
    /\ prior' = IF wpc = "select" /\ wpc' = "open" THEN fails[att'.addr] ELSE prior
    /\ fails' = IF wpc \in {"open", "locked", "write", "read"} /\ wpc' = "select"
                THEN [fails EXCEPT ![att.addr] =
                         IF att'.res = "ok" THEN 0 ELSE Min(@ + 1, MaxRetries + 1)]
                ELSE fails

\* one step of the system
Next ==
    \/ Upload /\ Frozen
    \/ StreamReset /\ Frozen
    \/ Close /\ Frozen
    \/ chunksWorker_timer /\ Frozen
    \/ chunksWorker_closed /\ Frozen
    \/ (\E a \in Addrs : chunksWorker_chunk(a)) /\ Frozen
    \/ chunksWorker_quit /\ Frozen
    \/ send_NewStream /\ Frozen
    \/ send_Lock /\ Frozen
    \/ send_retry /\ Frozen
    \/ send_write /\ Frozen
    \/ send_read /\ Frozen
    \/ (\E s \in Slots : handler_read(s)) /\ Frozen
    \/ (\E s \in Slots : handler_put(s)) /\ Frozen
    \/ (\E s \in Slots : handler_receipt(s)) /\ Frozen
    \/ (\E s \in Slots : handler_route(s)) /\ Frozen

Spec == Init /\ [][Next]_vars

\* the same steps with the failed transfers of each address counted
NextRetry ==
    \/ Upload /\ Observe
    \/ StreamReset /\ Observe
    \/ Close /\ Observe
    \/ chunksWorker_timer /\ Observe
    \/ chunksWorker_closed /\ Observe
    \/ (\E a \in Addrs : chunksWorker_chunk(a)) /\ Observe
    \/ chunksWorker_quit /\ Observe
    \/ send_NewStream /\ Observe
    \/ send_Lock /\ Observe
    \/ send_retry /\ Observe
    \/ send_write /\ Observe
    \/ send_read /\ Observe
    \/ (\E s \in Slots : handler_read(s)) /\ Observe
    \/ (\E s \in Slots : handler_put(s)) /\ Observe
    \/ (\E s \in Slots : handler_receipt(s)) /\ Observe
    \/ (\E s \in Slots : handler_route(s)) /\ Observe

SpecRetry == Init /\ [][NextRetry]_vars

\* the steps of the chunksWorker goroutine of the pivot
WorkerNext ==
    \/ chunksWorker_timer /\ Frozen
    \/ chunksWorker_closed /\ Frozen
    \/ (\E a \in Addrs : chunksWorker_chunk(a)) /\ Frozen
    \/ chunksWorker_quit /\ Frozen
    \/ send_NewStream /\ Frozen
    \/ send_Lock /\ Frozen
    \/ send_retry /\ Frozen
    \/ send_write /\ Frozen
    \/ send_read /\ Frozen

\* the Go scheduler runs the worker goroutine whenever it can take a step;
\* nothing makes a remote peer answer, or a stream break
FairSpec == Spec /\ WF_vars(WorkerNext)

\* the subscriptions are counted: every SubscribePush flips epoch
Swept == epoch' = 1 - epoch /\ UNCHANGED << fails, prior, wrfails, calls >>

\* the same steps with the subscriptions counted
NextLoop ==
    \/ Upload /\ Frozen
    \/ StreamReset /\ Frozen
    \/ Close /\ Frozen
    \/ chunksWorker_timer /\ Swept
    \/ chunksWorker_closed /\ Frozen
    \/ (\E a \in Addrs : chunksWorker_chunk(a)) /\ Frozen
    \/ chunksWorker_quit /\ Frozen
    \/ send_NewStream /\ Frozen
    \/ send_Lock /\ Frozen
    \/ send_retry /\ Frozen
    \/ send_write /\ Frozen
    \/ send_read /\ Frozen
    \/ (\E s \in Slots : handler_read(s)) /\ Frozen
    \/ (\E s \in Slots : handler_put(s)) /\ Frozen
    \/ (\E s \in Slots : handler_receipt(s)) /\ Frozen
    \/ (\E s \in Slots : handler_route(s)) /\ Frozen

\* the steps of the chunksWorker goroutine, subscriptions counted
WorkerLoop ==
    \/ chunksWorker_timer /\ Swept
    \/ chunksWorker_closed /\ Frozen
    \/ (\E a \in Addrs : chunksWorker_chunk(a)) /\ Frozen
    \/ chunksWorker_quit /\ Frozen
    \/ send_NewStream /\ Frozen
    \/ send_Lock /\ Frozen
    \/ send_retry /\ Frozen
    \/ send_write /\ Frozen
    \/ send_read /\ Frozen

\* the worker goroutine runs whenever it can take a step, its timer fires
\* whenever the worker waits in its select, and a select that finds quit
\* closed, or a chunk ready, again and again takes that case in the end (Go
\* chooses among the ready cases at random); nothing makes a remote peer
\* answer, or a stream break
FairLoop ==
    /\ Init /\ [][NextLoop]_vars
    /\ WF_vars(WorkerLoop)
    /\ SF_vars(chunksWorker_timer /\ Swept)
    /\ SF_vars(chunksWorker_quit /\ Frozen)
    /\ SF_vars((\E a \in Addrs : chunksWorker_chunk(a)) /\ Frozen)

\* ------------------------------- concurrent sendChunkAndReceiveReceipt calls
\* all but the retry map, its mutex and the calls
mainVars == << self, storerVars, uploads, quit, wpc, loopVars, att, wstream,
               streams, fails, prior, wrfails, epoch >>

\* the retry map after the statements that follow the lookup, for a call
\* whose lookup found v for address a: delete when v is above MaxRetries,
\* nothing when v is another entry (noOfRetries++ is local), 0 when none
UpdateAfterLookup(rc, a, v) ==
    IF v # Absent
    THEN IF v > MaxRetries THEN [rc EXCEPT ![a] = Absent] ELSE rc
    ELSE [rc EXCEPT ![a] = 0]

\* a call begins for a chunk: NewStream fails and the call returns, or it
\* succeeds and the Lock is next
call_NewStream(c) ==
    /\ calls[c].pc = "idle"
    /\ \E a \in Addrs, opened \in BOOLEAN :
          calls' = [calls EXCEPT ![c] =
                       IF opened
                       THEN [@ EXCEPT !.pc = "start", !.addr = a, !.stream = "open"]
                       ELSE [@ EXCEPT !.pc = "done", !.addr = a, !.res = "stream"]]
    /\ UNCHANGED << mainVars, retryChunks, retryChunksMu >>

\* ps.retryChunksMu.Lock()
call_Lock(c) ==
    /\ calls[c].pc = "start"
    /\ MayLock(retryChunksMu)
    /\ retryChunksMu' = "call"
    /\ calls' = [calls EXCEPT ![c] = [@ EXCEPT !.pc = "locked", !.holds = TRUE]]
    /\ UNCHANGED << mainVars, retryChunks >>

\* noOfRetries, ok = ps.retryChunks[addr]
call_lookup(c) ==
    /\ calls[c].pc = "locked"
    /\ calls' = [calls EXCEPT ![c] = [@ EXCEPT !.pc = "read",
                                               !.seen = retryChunks[calls[c].addr],
                                               !.under = @ /\ retryChunksMu = "call"]]
    /\ UNCHANGED << mainVars, retryChunks, retryChunksMu >>

\* delete(ps.retryChunks, addr), or noOfRetries++, or ps.retryChunks[addr] = 0
call_update(c) ==
    /\ calls[c].pc = "read"
    /\ retryChunks' = UpdateAfterLookup(retryChunks, calls[c].addr, calls[c].seen)
    /\ calls' = [calls EXCEPT ![c] = [@ EXCEPT !.pc = "written",
                                               !.under = @ /\ retryChunksMu = "call"]]
    /\ UNCHANGED << mainVars, retryChunksMu >>

\* ps.retryChunksMu.Unlock(), followed by the return of the exhausted call
\* (the deferred streamer.Close runs) or by the network part of the others
call_Unlock(c) ==
    /\ calls[c].pc = "written"
    /\ retryChunksMu' = Unlock(retryChunksMu)
    /\ calls' = [calls EXCEPT ![c] =
                    IF calls[c].seen # Absent /\ calls[c].seen > MaxRetries
                    THEN [@ EXCEPT !.pc = "done", !.res = "exhausted",
                                   !.stream = "closed",
                                   !.holds = Unlock(retryChunksMu) # "free"]
                    ELSE [@ EXCEPT !.pc = "net",
                                   !.holds = Unlock(retryChunksMu) # "free"]]
    /\ UNCHANGED << mainVars, retryChunks >>

\* w.WriteMsgWithTimeout: the Delivery is written and the call goes on to
\* wait for the Receipt, or the write fails and the call returns (the
\* deferred streamer.Close runs)
call_write(c) ==
    /\ calls[c].pc = "net"
    /\ \E written \in BOOLEAN :
          calls' = [calls EXCEPT ![c] =
                       IF written
                       THEN [@ EXCEPT !.pc = "sent"]
                       ELSE [@ EXCEPT !.pc = "done", !.res = "write", !.stream = "closed"]]
    /\ UNCHANGED << mainVars, retryChunks, retryChunksMu >>

\* the other end of the stream of a call that waits in r.ReadMsg: the peer's
\* handler writes the Receipt, or the stream breaks; nothing makes either
\* happen, and the call waits until one does
call_peer(c) ==
    /\ calls[c].pc = "sent"
    /\ calls[c].answer = "none"
    /\ \E ans \in {"receipt", "broken"} : calls' = [calls EXCEPT ![c].answer = ans]
    /\ UNCHANGED << mainVars, retryChunks, retryChunksMu >>

\* r.ReadMsg(&receipt) returns the Receipt or an error, and the call with it
\* (the deferred streamer.Close runs)
call_read(c) ==
    /\ calls[c].pc = "sent"
    /\ calls[c].answer # "none"
    /\ calls' = [calls EXCEPT ![c] =
                    [@ EXCEPT !.pc = "done", !.stream = "closed",
                              !.res = IF calls[c].answer = "receipt" THEN "ok" ELSE "read"]]
    /\ UNCHANGED << mainVars, retryChunks, retryChunksMu >>

\* the calls start on a retry map that holds, for each address, no entry, a
\* fresh entry or an entry above MaxRetries; the worker stays where it is,
\* and each call has a stream of its own, kept in calls[c].stream
InitMutex ==
    /\ self = 0
    /\ stored = [n \in Nodes |-> {}]
    /\ synced = [n \in Nodes |-> {}]
    /\ pushIndex = {}
    /\ uploads = 0
    /\ retryChunks \in [Addrs -> {Absent, 0, MaxRetries + 1}]
    /\ retryChunksMu = "free"
    /\ quit = FALSE
    /\ wpc = "select"
    /\ chunks = "nil"
    /\ unsubscribe = FALSE
    /\ timer = 0
    /\ chunksInBatch = -1
    /\ yielded = {}
    /\ subs = 0
    /\ att = AttNone
    /\ wstream = NoSlot
    /\ streams = [s \in Slots |-> FreeStream]
    /\ fails = [a \in Addrs |-> 0]
    /\ prior = 0
    /\ wrfails = [a \in Addrs |-> 0]
    /\ epoch = 0
    /\ calls = [c \in Callers |-> CallIdle]

NextMutex ==
    \/ \E c \in Callers : call_NewStream(c)
    \/ \E c \in Callers : call_Lock(c)
    \/ \E c \in Callers : call_lookup(c)
    \/ \E c \in Callers : call_update(c)
    \/ \E c \in Callers : call_Unlock(c)
    \/ \E c \in Callers : call_write(c)
    \/ \E c \in Callers : call_peer(c)
    \/ \E c \in Callers : call_read(c)

\* sendChunkAndReceiveReceipt called by NumCallers goroutines at once, each
\* statement of its critical section a step of its own
SpecMutex == InitMutex /\ [][NextMutex]_vars

\* =================================================================== claims
IsPrefix(s, full) == Len(s) <= Len(full) /\ \A i \in 1 .. Len(s) : s[i] = full[i]
Count(s, x) == Cardinality({ i \in 1 .. Len(s) : s[i] = x })
UsedSlots == { s \in Slots : streams[s].used }
StoredAt(a) == { n \in Nodes : \E c \in stored[n] : c.addr = a }
Closest == NumNodes - 1

\* C1: for a chunk the topology routes to a peer P, one attempt of the worker
\* opens at most one stream, to P, and writes at most one Delivery, on that
\* stream, with the chunk's address and data as stored; the worker calls
\* Set(ModeSetSyncPush) for the chunk only after exactly one Delivery was
\* written and a Receipt was read from that same stream, so the chunk is never
\* set synced by the worker without a Receipt for the attempt
C1_SyncedOnlyAfterReceipt ==
    att.route = "peer" =>
        /\ att.opened <= 1
        /\ att.opened = 1 => att.to = att.peer /\ att.to = ClosestPeer(self).peer
        /\ Len(att.sent) <= 1
        /\ \A i \in 1 .. Len(att.sent) :
            /\ att.sent[i] = [Address |-> att.addr, Data |-> DataOf(att.addr)]
            /\ att.wslot = att.conn
        /\ wstream # NoSlot =>
            /\ wstream = att.conn
            /\ streams[wstream].to = att.peer
            /\ streams[wstream].in = att.sent
        /\ att.rcpt => Len(att.sent) = 1 /\ att.rslot = att.conn
        /\ att.set # "none" => att.rcpt /\ att.res = "ok"
        /\ att.set = "ok" => att.addr \in synced[self]

\* C1, its case: the worker has read a Receipt for the Delivery it wrote to
\* the peer and has set the chunk synced
C1_Witness ==
    /\ att.route = "peer"
    /\ att.rcpt
    /\ att.set = "ok"
    /\ att.addr \in synced[self]

\* C2: a handler that has returned after ClosestPeer gave it a peer P has
\* sent exactly one Delivery for the chunk it received, with the chunk's
\* address and data, on a new stream to P
C2_HandlerForwardsOnce ==
    \A s \in UsedSlots :
        LET st == streams[s] IN
        (st.hpc = "done" /\ st.hroute = "peer") =>
            /\ Len(st.hfwd) = 1
            /\ st.hfwd[1] = [to |-> ClosestPeer(st.to).peer, msg |-> NewDelivery(st.hch)]

\* C2, its case: a handler returned after ClosestPeer gave it a peer
C2_Witness ==
    \E s \in UsedSlots : streams[s].hpc = "done" /\ streams[s].hroute = "peer"

\* C3: a call of sendChunkAndReceiveReceipt that began after exactly
\* MaxRetries consecutive failed calls for its address has, once returned,
\* failed with retries exhausted, opened no stream, and left no entry for the
\* address in the retry map
C3_ExhaustedAfterMaxRetries ==
    (/\ att.route \in {"peer", "err"}
     /\ prior = MaxRetries
     /\ wpc = "select"
     /\ att.res # "none") =>
        /\ att.res = "exhausted"
        /\ att.opened = 0
        /\ retryChunks[att.addr] = Absent

\* C3, its case: a call that began after MaxRetries consecutive failures
\* has returned
C3_Witness ==
    /\ att.route \in {"peer", "err"}
    /\ prior = MaxRetries
    /\ wpc = "select"
    /\ att.res # "none"

\* C4: when a call of sendChunkAndReceiveReceipt has returned success for an
\* address, the retry map holds no entry for that address
C4_SuccessClearsEntry ==
    (wpc = "select" /\ att.res = "ok") => retryChunks[att.addr] = Absent

\* C4, its case: a call has returned success
C4_Witness == wpc = "select" /\ att.res = "ok"

\* C5: on every inbound stream the handler's events are, in this order, the
\* Put of the delivered chunk, the writing of one Receipt on the same stream,
\* the query of the topology (and what follows it); at most one Receipt is
\* written on a stream, and there is no query, no forwarding and no Set
\* before the Receipt is written
C5_HandlerOrder ==
    \A s \in UsedSlots :
        LET st == streams[s] IN
        /\ IsPrefix(st.hev, << "put", "receipt", "route", "set" >>)
        /\ Len(st.out) <= 1
        /\ Len(st.out) = Count(st.hev, "receipt")
        /\ st.out = << >> => st.hroute = "none" /\ st.hfwd = << >>
        /\ st.hroute # "none" => Count(st.hev, "route") = 1
        /\ st.hev # << >> =>
            /\ st.in # << >>
            /\ st.hch = NewChunk(st.in[1].Address, st.in[1].Data)
            /\ st.hch \in stored[st.to]

\* C5, its case: a handler has stored the chunk, written the Receipt and
\* asked the topology
C5_Witness ==
    \E s \in UsedSlots :
        /\ Len(streams[s].hev) >= 3
        /\ Len(streams[s].out) = 1

\* C6: every Receipt the handler has written on a stream carries the address
\* of the Delivery that came in on that stream
C6_ReceiptEchoesAddress ==
    \A s \in UsedSlots :
        \A i \in 1 .. Len(streams[s].out) :
            streams[s].out[i].Address = streams[s].in[1].Address

\* C6, its case: a handler has written a Receipt for a Delivery
C6_Witness ==
    \E s \in UsedSlots : streams[s].out # << >> /\ streams[s].in # << >>

\* C7: when ClosestPeer answered the worker that the pivot itself is the
\* closest, the worker opened no stream and wrote no message for the chunk and
\* called Set(ModeSetSyncPush) for it in the step that took it from the feed,
\* which leaves the chunk synced and out of the push index when Set succeeds
C7_WantSelfNoNetwork ==
    att.route = "self" =>
        /\ wpc \in {"select", "exit"}
        /\ att.opened = 0
        /\ att.sent = << >>
        /\ wstream = NoSlot
        /\ att.set # "none"
        /\ att.set = "ok" => att.addr \in synced[self] /\ att.addr \notin pushIndex

\* C7, its case: the worker took a chunk for which the pivot is the closest
\* node and set it synced
C7_Witness ==
    /\ att.route = "self"
    /\ att.set = "ok"
    /\ att.addr \in synced[self]

\* C8: a handler that ClosestPeer answered with self-is-closest has stored the
\* delivered chunk, has written one Receipt, has sent no Delivery on and
\* returns without error
C8_ClosestDoesNotForward ==
    \A s \in UsedSlots :
        LET st == streams[s] IN
        st.hroute = "self" =>
            /\ st.hpc = "done"
            /\ st.hres = NoErr
            /\ st.hch \in stored[st.to]
            /\ Count(st.hev, "put") = 1
            /\ Len(st.out) = 1
            /\ st.hfwd = << >>

\* C8, its case: a handler got a Delivery at the node that is the closest
C8_Witness ==
    \E s \in UsedSlots :
        /\ streams[s].hroute = "self"
        /\ streams[s].in # << >>
        /\ streams[s].to = Closest

\* C9: in the chain topology, once the exchanges started by the upload of a
\* chunk are over (the pivot has it synced, the worker is between two events
\* and no handler runs), the chunk is held by at most NumNodes nodes and by
\* the node for which ClosestPeer reports self-is-closest, where the chain ends
C9_ChainEndsAtClosest ==
    \A a \in Addrs :
        (/\ a \in synced[self]
         /\ wpc \in {"select", "exit"}
         /\ \A s \in Slots : HandlerOver(streams[s])) =>
            /\ Cardinality(StoredAt(a)) <= NumNodes
            /\ Closest \in StoredAt(a)

\* C9, its case: the exchanges for a chunk uploaded two hops away from the
\* closest node are over
C9_Witness ==
    \E a \in Addrs :
        /\ self + 2 <= Closest
        /\ a \in synced[self]
        /\ wpc = "select"
        /\ \A s \in Slots : HandlerOver(streams[s])

\* C10: a worker that waits for the Receipt of a Delivery it has written to a
\* peer does not wait forever: the transfer ends and the worker is back at
\* its select
C10_SilentPeerTimesOut ==
    (wpc = "read" /\ streams[wstream].to \in Nodes /\ streams[wstream].in # << >>)
        ~> (wpc = "select")

\* C10, its case: the worker waits for a Receipt the peer has not written
C10_Witness ==
    /\ wpc = "read"
    /\ streams[wstream].to \in Nodes
    /\ streams[wstream].in # << >>
    /\ streams[wstream].out = << >>

\* C11: the worker takes no chunk from the push feed once Close has closed the
\* quit channel: the chunk it took last was taken while quit was open
C11_NoChunkAfterClose == att.addr # NoAddr => ~att.q

\* C11, its case: Close was called while the live subscription still had a
\* chunk to yield, and the worker is at its select
C11_Witness ==
    /\ quit
    /\ wpc = "select"
    /\ chunks = "live"
    /\ pushIndex \ yielded # {}

\* C12: after Close the worker loop terminates in the end, also when a
\* transfer was in flight at the time of Close, and a worker that has
\* terminated holds no subscription
C12_ExitsAfterClose ==
    /\ quit ~> (wpc = "exit")
    /\ [](wpc = "exit" => subs = 0)

\* C12, its case: Close was called while the worker was waiting for the
\* Receipt of a transfer
C12_Witness ==
    /\ quit
    /\ wpc = "read"
    /\ att.sent # << >>

\* C13 (as claimed): a handler that has stored the chunk and written the
\* Receipt and that ClosestPeer answered with self-is-closest has called
\* Set(ModeSetSyncPush) for the chunk when it returns
C13_ClosestMarksSynced ==
    \A s \in UsedSlots :
        LET st == streams[s] IN
        (st.hroute = "self" /\ st.hpc = "done") => Count(st.hev, "set") = 1

\* C13 (amended): a handler that has stored the chunk and written the Receipt
\* and that ClosestPeer answered with self-is-closest returns nil at once: it
\* makes no call of Set, and the chunk is stored at its node without being
\* set synced there
C13_ClosestReturnsWithoutSet ==
    \A s \in UsedSlots :
        LET st == streams[s] IN
        st.hroute = "self" =>
            /\ st.hpc = "done"
            /\ st.hres = NoErr
            /\ st.hev = << "put", "receipt", "route" >>
            /\ st.hch \in stored[st.to]
            /\ st.hch.addr \notin synced[st.to]

\* C13, its case: the handler at the closest node has stored the chunk,
\* written the Receipt and returned
C13_Witness ==
    \E s \in UsedSlots :
        /\ streams[s].hroute = "self"
        /\ streams[s].hpc = "done"
        /\ Len(streams[s].out) = 1
        /\ streams[s].hch \in stored[streams[s].to]

\* C14: a handler that ClosestPeer answered with a next-hop peer calls
\* Set(ModeSetSyncPush) only once its one forward of the chunk to that peer is
\* over, and does so whether the forward succeeded or not; the forward is not
\* repeated and the Receipt it wrote before stays written
C14_SyncedAfterForward ==
    \A s \in UsedSlots :
        LET st == streams[s] IN
        st.hroute = "peer" =>
            /\ Count(st.hev, "set") = 1 => Len(st.hfwd) = 1
            /\ st.hpc = "done" => Count(st.hev, "set") = 1
            /\ Len(st.hfwd) <= 1
            /\ Len(st.out) = 1

\* C14, its case: a handler that was given a next-hop peer has called Set and
\* returned
C14_Witness ==
    \E s \in UsedSlots :
        /\ streams[s].hroute = "peer"
        /\ streams[s].hpc = "done"
        /\ Count(streams[s].hev, "set") = 1

\* C15: between two calls of sendChunkAndReceiveReceipt, an address whose last
\* k calls (1 <= k <= MaxRetries) each failed in the Delivery write or the
\* Receipt read, with no successful call in between, has the value k in the
\* retry map; an entry of the retry map is never negative
C15_CounterCountsFailures ==
    \A a \in Addrs :
        /\ (wpc = "select" /\ wrfails[a] \in 1 .. MaxRetries) => retryChunks[a] = wrfails[a]
        /\ retryChunks[a] # Absent => retryChunks[a] >= 0

\* C15, its case: two calls in a row for an address have failed in the write
\* or the read
C15_Witness ==
    \E a \in Addrs :
        /\ wpc = "select"
        /\ wrfails[a] = 2
        /\ att.addr = a
        /\ att.res \in {"write", "read"}

\* C16: for a chunk whose ClosestPeer query failed with an error other than
\* self-is-closest, the worker does not enter the transfer: it opens no
\* stream and writes no Delivery, does not call Set, leaves the chunk in the
\* push index and is back at its select
C16_RouteErrorSkipsChunk ==
    att.route = "err" =>
        /\ wpc \in {"select", "exit"}
        /\ att.opened = 0
        /\ att.sent = << >>
        /\ att.set = "none"
        /\ att.addr \in pushIndex

\* C16, its case: ClosestPeer has failed for the chunk the worker took last
\* and the worker is done with the chunk
C16_Witness ==
    /\ att.route = "err"
    /\ att.peer = ZeroPeer
    /\ wpc = "select"

\* C17: a chunk for which sendChunkAndReceiveReceipt returned an error (the
\* stream could not be opened, the write or the read failed, or the retries
\* were exhausted) is not set synced by the worker and stays in the push
\* index; the worker made that one attempt for it, with at most one stream
\* and one Delivery, and is back at its select, or has left it on quit
C17_FailedTransferLeavesPending ==
    att.res \in {"stream", "write", "read", "exhausted"} =>
        /\ att.set = "none"
        /\ att.addr \notin synced[self]
        /\ att.addr \in pushIndex
        /\ att.opened <= 1
        /\ Len(att.sent) <= 1
        /\ ~att.rcpt
        /\ wpc = "select" \/ (wpc = "exit" /\ quit)

\* C17, its case: the read of the Receipt has failed after the Delivery was
\* written, and the worker is back at its select
C17_Witness ==
    /\ att.res = "read"
    /\ Len(att.sent) = 1
    /\ wpc = "select"
    /\ ~quit

\* C18: as long as Close is not called the worker calls SubscribePush again
\* and again, without end, and a chunk left in the push index by a failed
\* transfer is taken from the feed again later
C18_SweepsForever ==
    /\ []<>(quit \/ epoch = 0)
    /\ []<>(quit \/ epoch = 1)
    /\ (wpc = "select" /\ att.res \in {"stream", "write", "read"})
           ~> (quit \/ att.res = "none")

\* C18, its case: the worker has subscribed more than once and is in a
\* transfer for a chunk of the later subscription, with Close not called
C18_Witness ==
    /\ ~quit
    /\ epoch = 0
    /\ unsubscribe
    /\ wpc = "read"

\* C19: when the channel of a subscription has closed, the timer is reset to
\* the debounce delay of 500 ms if the worker took no chunk from that
\* subscription, and to zero if it took at least one; this is so for every
\* subscription of the worker, the first and the later ones
C19_DebounceOnEmptyBatch ==
    (chunks = "nil" /\ unsubscribe) =>
        /\ yielded = {} => timer = debounceDelay
        /\ yielded # {} => timer = 0

\* C19, its case: a subscription has closed without having yielded a chunk
C19_Witness ==
    /\ chunks = "nil"
    /\ unsubscribe
    /\ yielded = {}
    /\ wpc = "select"

\* C20: the worker holds at most one subscription of the push feed at any
\* time: one once its timer has fired, none before and none after it has
\* left on quit; the channel it receives from belongs to the subscription it
\* opened last, and before the first timer tick there is no subscription, no
\* channel and no chunk taken
C20_OneSubscription ==
    /\ subs <= 1
    /\ wpc # "exit" => subs = (IF unsubscribe THEN 1 ELSE 0)
    /\ wpc = "exit" => subs = 0
    /\ (chunks = "live" /\ wpc # "exit") => (unsubscribe /\ subs = 1)
    /\ ~unsubscribe => (chunks = "nil" /\ timer = 0 /\ yielded = {} /\ att = AttNone)

\* C20, its case: the worker took a chunk from one subscription and has since
\* opened another one on a timer tick
C20_Witness ==
    /\ att.addr # NoAddr
    /\ chunks = "live"
    /\ yielded = {}
    /\ subs = 1
    /\ wpc = "select"

\* the slots whose stream had a handler that has returned
ReturnedSlots == { s \in Slots : streams[s].hpc = "done" }

\* C21: a handler whose storer.Put failed has returned that error, and has
\* written no Receipt, asked the topology nothing, sent nothing on and made
\* no call of Set
C21_PutFailureAborts ==
    \A s \in Slots :
        LET st == streams[s] IN
        st.hfail = "put" =>
            /\ st.hpc = "done"
            /\ st.hres = ErrOther
            /\ st.out = << >>
            /\ st.hev = << >>
            /\ st.hroute = "none"
            /\ st.hfwd = << >>

\* C21, its case: a handler has read a Delivery, storer.Put has failed and the
\* handler has returned
C21_Witness ==
    \E s \in ReturnedSlots :
        /\ streams[s].hfail = "put"
        /\ streams[s].in # << >>
        /\ streams[s].hch # NoChunk

\* C22: a handler whose stream ended before a Delivery could be read has
\* returned nil, and a handler whose read failed otherwise has returned the
\* error; either has stored nothing, written no Receipt, asked the topology
\* nothing and set nothing synced
C22_NoDeliveryNoEffect ==
    \A s \in Slots :
        LET st == streams[s] IN
        st.hfail \in {"eof", "read"} =>
            /\ st.hpc = "done"
            /\ st.hres = (IF st.hfail = "eof" THEN NoErr ELSE ErrOther)
            /\ st.hch = NoChunk
            /\ st.hev = << >>
            /\ st.out = << >>
            /\ st.hroute = "none"
            /\ st.hfwd = << >>

\* C22, its case: the worker has closed a stream without writing a Delivery
\* and the handler on it has read the end of the stream and returned
C22_Witness ==
    \E s \in ReturnedSlots :
        /\ streams[s].hfail = "eof"
        /\ streams[s].in = << >>
        /\ streams[s].cclosed

\* C22, its other case: the handler's read has failed while the stream was
\* still open
C22_WitnessReadError ==
    \E s \in ReturnedSlots :
        /\ streams[s].hfail = "read"
        /\ streams[s].used
        /\ ~streams[s].cclosed

\* C23: a handler that has returned, on whatever path, has closed its stream;
\* once sendChunkAndReceiveReceipt has returned, the worker holds no stream
\* and the stream the call opened is closed at the worker's end; so a stream
\* of the table is open at an end only while the operation at that end runs
C23_StreamsClosedOnReturn ==
    /\ \A s \in Slots : streams[s].hpc = "done" => streams[s].hclosed
    /\ wpc \in {"select", "open", "exit"} =>
          /\ wstream = NoSlot
          /\ att.conn # NoSlot => (~streams[att.conn].used \/ streams[att.conn].cclosed)
    /\ \A s \in UsedSlots :
          /\ streams[s].cclosed \/ (wstream = s /\ wpc \in {"retry", "locked", "write", "read"})
          /\ streams[s].hclosed \/ streams[s].hpc \in {"none", "read", "put", "receipt", "route"}
          /\ ~(streams[s].cclosed /\ streams[s].hclosed)

\* C23, its case: a transfer has succeeded, the worker and the handler have
\* both returned and the stream has left the table
C23_Witness ==
    /\ wpc = "select"
    /\ att.res = "ok"
    /\ att.conn # NoSlot
    /\ streams[att.conn] = FreeStream

\* the calls that are in the critical section, and those that hold the mutex
InSection == { c \in Callers : calls[c].pc \in {"locked", "read", "written"} }

Holders == { c \in Callers : calls[c].holds }

\* C24: however concurrent calls of sendChunkAndReceiveReceipt interleave, at
\* most one of them is between Lock and Unlock, and the mutex is held exactly
\* then: every lookup and every update of the retry map was made with the
\* mutex held, no other call changes the map between a call's lookup and its
\* update, and a call that is about to write the Delivery, waits for the
\* Receipt or has returned, on the exhausted path or another, does not hold
\* the mutex
C24_RetryMapUnderMutex ==
    /\ Cardinality(Holders) <= 1
    /\ Holders = InSection
    /\ retryChunksMu = "call" <=> Holders # {}
    /\ \A c \in Callers :
          /\ calls[c].under
          /\ calls[c].pc = "read" => retryChunks[calls[c].addr] = calls[c].seen
          /\ calls[c].pc = "written" =>
                retryChunks[calls[c].addr] =
                    (IF calls[c].seen = Absent THEN 0
                     ELSE IF calls[c].seen > MaxRetries THEN Absent
                     ELSE calls[c].seen)
          /\ calls[c].pc \in {"net", "sent", "done"} => ~calls[c].holds

\* C24, its case: calls for the same address have contended: one created
\* the entry, wrote the Delivery and waits for a Receipt the peer has not
\* written, another then found that entry and is in the critical section
\* holding the mutex, and a third waits at the Lock
C24_Witness ==
    \E c, d \in Callers :
        /\ c # d
        /\ calls[c].addr = calls[d].addr
        /\ calls[c].pc = "sent"
        /\ calls[c].answer = "none"
        /\ calls[c].stream = "open"
        /\ calls[c].seen = Absent
        /\ calls[d].pc = "written"
        /\ calls[d].seen = 0
        /\ Holders = {d}
        /\ \E e \in Callers : calls[e].pc = "start"

\* C24, the exhausted way out: a call that found an entry above MaxRetries
\* has deleted it, released the mutex and returned, while another call waits
\* for the mutex or holds it
C24_WitnessExhausted ==
    \E c, d \in Callers :
        /\ c # d
        /\ calls[c].res = "exhausted"
        /\ calls[c].stream = "closed"
        /\ retryChunks[calls[c].addr] = Absent
        /\ calls[d].pc \in {"start", "locked"}

====
